---- MODULE Spec2Model ----
(***************************************************************************)
(* A model of cloudprinting/client.py: six module-level functions, each    *)
(* building one HTTP request, sending it with `requests`, and normalising  *)
(* the response.  A call is modelled in two steps, split at the blocking   *)
(* HTTP round trip: <op>_call builds and sends the request, Respond is the *)
(* remote service answering, <op>_return is the code after the request.    *)
(* Finish is the caller taking the outcome: the function's locals are gone *)
(* and the module, which has no mutable globals, is ready for a new call.  *)
(*                                                                         *)
(* Python values whose type matters are tagged records ([t |-> "list",     *)
(* list |-> ...]); optional string arguments are plain strings with None.  *)
(* Path and URL strings are kept as their sequence of "/"-separated        *)
(* components and joined where the code uses them as one string.           *)
(*                                                                         *)
(* Environment assumptions: local collaborators called with well-typed     *)
(* arguments succeed (the file of a path argument exists, the ticket is    *)
(* JSON-serialisable, the transport delivers a response).  The response    *)
(* itself is arbitrary: any status, and a body that may be empty, not JSON,*)
(* or JSON with or without a `jobs` member.                                *)
(***************************************************************************)
EXTENDS Integers, Sequences, FiniteSets, TLC

VARIABLES
    pc,      \* "idle", "wait" (request sent), "resp" (response in hand), "done"
    call,    \* the function called and its arguments
    reqs,    \* the HTTP requests the current call has sent, in order
    io,      \* the reads and sends of the current call, in order
    resp,    \* r, the response to the current call's request
    result   \* how the call ended: the value returned or the exception raised,
             \* with the number of r.json() calls made on the way

vars == <<pc, call, reqs, io, resp, result>>

----------------------------------------------------------------------------
(* Bounds of the model *)

MaxJobs == 2

MaxPathLen == 2

----------------------------------------------------------------------------
(* Constants of the program and of its libraries *)

None == "None"

CLOUDPRINT_URL == "https://www.google.com/cloudprint"

codes_ok == 200

----------------------------------------------------------------------------
(* Python values *)

PyNone == [t |-> "NoneType"]

PyStr(s) == [t |-> "str", str |-> s]

PyList(l) == [t |-> "list", list |-> l]

PyDict(d) == [t |-> "dict", dict |-> d]

PyBytes(b) == [t |-> "bytes", bytes |-> b]

PyResponse(r) == [t |-> "Response", response |-> r]

Return(v, n) == [kind |-> "return", value |-> v, json_calls |-> n]

Raise(e, n) == [kind |-> "raise", value |-> [t |-> e], json_calls |-> n]

----------------------------------------------------------------------------
(* Input domains *)

PrinterIds == {"p1"}

JobIds == {"j1", "j2"}

Job ==
    {[id |-> "j1", title |-> "x"], [id |-> "j1", title |-> "y"],
     [id |-> "j2", title |-> "x"]}

SeqsUpTo(S, n) == UNION {[1..k -> S] : k \in 0..n}

JobLists == SeqsUpTo(Job, MaxJobs)

NoDoc == [has_jobs |-> FALSE, jobs |-> <<>>]

Docs == {NoDoc} \cup {[has_jobs |-> TRUE, jobs |-> l] : l \in JobLists}

Texts ==
    {[kind |-> "empty", doc |-> NoDoc], [kind |-> "junk", doc |-> NoDoc]}
        \cup {[kind |-> "json", doc |-> d] : d \in Docs}

StatusCodes == {200, 201, 204, 404}

Responses == [status_code : StatusCodes, text : Texts]

Components == {"a.pdf", "b"}

Paths == SeqsUpTo(Components, MaxPathLen) \ {<<>>}

Streams ==
    {[type |-> "bytes", data |-> <<"b1", "b2">>],
     [type |-> "str", data |-> <<"s1", "s2">>]}

Contents ==
    {[kind |-> "pair", name |-> n, stream |-> s] : n \in Components, s \in Streams}
        \cup {[kind |-> "str", path |-> p] : p \in Paths}

TitleArgs == {None, ""}

TicketArgs ==
    {PyNone, PyList(<<>>), PyList(<<PyDict(<<<<"copies", PyStr("2")>>>>)>>)}

TagsArgs == {PyNone, PyList(<<"t">>)}

ContentTypeArgs == {None, "", "url", "text/plain"}

Kwargs == {[auth |-> "oauth2"]}

----------------------------------------------------------------------------
(* Library functions *)

RECURSIVE Join(_)
Join(path) ==
    IF Len(path) = 0 THEN ""
    ELSE IF Len(path) = 1 THEN path[1]
    ELSE path[1] \o "/" \o Join(Tail(path))

basename(path) == path[Len(path)]

Disk(path) == <<"head of " \o Join(path), "rest of " \o Join(path)>>

guess_type(name) ==
    CASE name = "a.pdf" -> "application/pdf"
      [] OTHER -> None

RECURSIVE json_dumps(_)
RECURSIVE dumps_items(_, _)
RECURSIVE dumps_pairs(_, _)
json_dumps(v) ==
    CASE v.t = "NoneType" -> "null"
      [] v.t = "str" -> "\"" \o v.str \o "\""
      [] v.t = "list" -> "[" \o dumps_items(v.list, 1) \o "]"
      [] v.t = "dict" -> "{" \o dumps_pairs(v.dict, 1) \o "}"

dumps_items(l, i) ==
    IF i > Len(l) THEN ""
    ELSE (IF i > 1 THEN ", " ELSE "") \o json_dumps(l[i]) \o dumps_items(l, i + 1)

dumps_pairs(d, i) ==
    IF i > Len(d) THEN ""
    ELSE (IF i > 1 THEN ", " ELSE "")
             \o "\"" \o d[i][1] \o "\": " \o json_dumps(d[i][2])
             \o dumps_pairs(d, i + 1)

json(r) ==
    IF r.text.kind = "json" THEN Return(PyDict(r.text.doc), 1)
    ELSE Raise("ValueError", 1)

iter_content(r) ==
    IF r.text.kind = "empty" THEN <<>> ELSE <<PyBytes(r.text)>>

----------------------------------------------------------------------------
(* Response normalisation of each function *)

(* get_printer returning the response without decoding it *)
get_printer_result_undecoded(r) == Return(PyResponse(r), 0)

get_printer_result(r) ==
    IF r.status_code # codes_ok THEN Return(PyResponse(r), 0) ELSE json(r)

(* delete_job testing for any 2xx status instead of 200 *)
delete_job_result_any_2xx(r) ==
    IF r.status_code >= 200 /\ r.status_code < 300 THEN json(r)
    ELSE Return(PyResponse(r), 0)

delete_job_result(r) ==
    IF r.status_code = codes_ok THEN json(r) ELSE Return(PyResponse(r), 0)

list_jobs_result(r) ==
    IF r.status_code # codes_ok THEN Return(PyResponse(r), 0)
    ELSE IF json(r).kind = "raise" THEN json(r)
    ELSE IF ~json(r).value.dict.has_jobs THEN Raise("KeyError", 1)
    ELSE Return(PyList(json(r).value.dict.jobs), 1)

(* list_printers decoding the body whatever the status *)
list_printers_result_always_decodes(r) == json(r)

list_printers_result(r) ==
    IF r.status_code # codes_ok THEN Return(PyResponse(r), 0) ELSE json(r)

submit_job_result(r) ==
    IF r.status_code = codes_ok THEN json(r) ELSE Return(PyResponse(r), 0)

iter(v) ==
    IF v.t = "list" THEN [i \in 1..Len(v.list) |-> PyDict(v.list[i])]
    ELSE iter_content(v.response)

(* get_job keeping the last job with the id instead of returning at the first *)
get_job_scan_last(id, items, i, n) ==
    LET m == {k \in i..Len(items) : items[k].t = "dict" /\ items[k].dict.id = id}
    IN  IF \E k \in i..Len(items) : items[k].t # "dict" THEN Raise("TypeError", n)
        ELSE IF m = {} THEN Return(PyNone, n)
        ELSE Return(items[CHOOSE k \in m : \A j \in m : j <= k], n)

RECURSIVE get_job_scan(_, _, _, _)
get_job_scan(id, items, i, n) ==
    IF i > Len(items) THEN Return(PyNone, n)
    ELSE IF items[i].t # "dict" THEN Raise("TypeError", n)
    ELSE IF items[i].dict.id = id THEN Return(items[i], n)
    ELSE get_job_scan(id, items, i + 1, n)

get_job_result(id, r) ==
    LET jobs == list_jobs_result(r)
    IN  IF jobs.kind = "raise" THEN jobs
        ELSE get_job_scan(id, iter(jobs.value), 1, jobs.json_calls)

----------------------------------------------------------------------------
(* Request building of each function *)

get_printer_request(id, kwargs) ==
    [method |-> "POST", url |-> CLOUDPRINT_URL \o "/printer",
     params |-> [printerid |-> id], kwargs |-> kwargs]

delete_job_request(id, kwargs) ==
    [method |-> "POST", url |-> CLOUDPRINT_URL \o "/deletejob",
     data |-> [jobid |-> id], kwargs |-> kwargs]

list_jobs_request(printer, kwargs) ==
    [method |-> "GET", url |-> CLOUDPRINT_URL \o "/jobs",
     params |-> IF printer # None THEN [printerid |-> printer] ELSE <<>>,
     kwargs |-> kwargs]

get_job_request(id, printer, kwargs) == list_jobs_request(printer, kwargs)

list_printers_request(kwargs) ==
    [method |-> "GET", url |-> CLOUDPRINT_URL \o "/search", kwargs |-> kwargs]

(* submit_job naming a path input by the whole path, without basename *)
normalise_keeps_path(content, content_type) ==
    IF content.kind = "pair"
    THEN [name |-> content.name,
          content |-> [type |-> content.stream.type, data |-> content.stream.data],
          io |-> <<"stream.read">>]
    ELSE IF content_type = "url"
    THEN [name |-> Join(content.path),
          content |-> [type |-> "str", data |-> Join(content.path)],
          io |-> <<>>]
    ELSE [name |-> Join(content.path),
          content |-> [type |-> "bytes", data |-> Disk(content.path)],
          io |-> <<"open", "read", "close">>]

normalise(content, content_type) ==
    IF content.kind = "pair"
    THEN [name |-> content.name,
          content |-> [type |-> content.stream.type, data |-> content.stream.data],
          io |-> <<"stream.read">>]
    ELSE IF content_type = "url"
    THEN [name |-> Join(content.path),
          content |-> [type |-> "str", data |-> Join(content.path)],
          io |-> <<>>]
    ELSE [name |-> basename(content.path),
          content |-> [type |-> "bytes", data |-> Disk(content.path)],
          io |-> <<"open", "read", "close">>]

default_title(title, name) == IF title = None THEN name ELSE title

(* submit_job replacing every falsy ticket (`if not ticket`) *)
default_ticket_if_falsy(ticket) ==
    IF ticket = PyNone \/ ticket = PyList(<<>>) THEN PyList(<<PyDict(<<>>)>>)
    ELSE ticket

default_ticket(ticket) ==
    IF ticket = PyNone THEN PyList(<<PyDict(<<>>)>>) ELSE ticket

(* submit_job guessing the type only when content_type is None *)
mime_type_if_not_none(content_type, name) ==
    IF content_type # None THEN content_type ELSE guess_type(name)

mime_type(content_type, name) ==
    IF content_type # None /\ content_type # "" THEN content_type
    ELSE guess_type(name)

truthy(tags) == tags.t = "list" /\ Len(tags.list) > 0

(* submit_job choosing the form post on content_type alone *)
as_form_field_any_type(content_type, content) == content_type = "url"

as_form_field(content_type, content) ==
    content_type = "url" /\ content.type = "str"

submit_job_request(printer, content, title, ticket, tags, content_type, kwargs) ==
    LET n == normalise(content, content_type)
        data == [printerid |-> printer,
                 title |-> default_title(title, n.name),
                 contentType |-> mime_type(content_type, n.name),
                 ticket |-> json_dumps(default_ticket(ticket))]
        tagged == IF truthy(tags) THEN data @@ ("tag" :> tags.list) ELSE data
        url == CLOUDPRINT_URL \o "/submit"
    IN  IF as_form_field(content_type, n.content)
        THEN [method |-> "POST", url |-> url,
              data |-> tagged @@ ("content" :> n.content.data),
              kwargs |-> kwargs]
        ELSE [method |-> "POST", url |-> url, data |-> tagged,
              files |-> [content |-> <<n.name, n.content.data>>],
              kwargs |-> kwargs]

submit_job_io(content, content_type) ==
    normalise(content, content_type).io \o <<"requests.post">>

----------------------------------------------------------------------------
(* The state machine *)

NoCall == [op |-> "none"]

NoResponse == [status_code |-> 0]

NoResult == [kind |-> "none"]

Init ==
    /\ pc = "idle"
    /\ call = NoCall
    /\ reqs = <<>>
    /\ io = <<>>
    /\ resp = NoResponse
    /\ result = NoResult

Begin(c, request, events) ==
    /\ pc = "idle"
    /\ pc' = "wait"
    /\ call' = c
    /\ reqs' = <<request>>
    /\ io' = events
    /\ resp' = NoResponse
    /\ result' = NoResult

End(op, outcome) ==
    /\ pc = "resp"
    /\ call.op = op
    /\ pc' = "done"
    /\ result' = outcome
    /\ UNCHANGED <<call, reqs, io, resp>>

get_printer_call(id, kwargs) ==
    Begin([op |-> "get_printer", id |-> id],
          get_printer_request(id, kwargs), <<"requests.post">>)

get_printer_return == End("get_printer", get_printer_result(resp))

get_job_call(id, printer, kwargs) ==
    Begin([op |-> "get_job", id |-> id, printer |-> printer],
          get_job_request(id, printer, kwargs), <<"requests.get">>)

get_job_return == End("get_job", get_job_result(call.id, resp))

delete_job_call(id, kwargs) ==
    Begin([op |-> "delete_job", id |-> id],
          delete_job_request(id, kwargs), <<"requests.post">>)

delete_job_return == End("delete_job", delete_job_result(resp))

list_jobs_call(printer, kwargs) ==
    Begin([op |-> "list_jobs", printer |-> printer],
          list_jobs_request(printer, kwargs), <<"requests.get">>)

(* list_jobs sending its request once more after a non-success status *)
list_jobs_return_retry ==
    IF resp.status_code # codes_ok /\ Len(reqs) < 2
    THEN /\ pc = "resp"
         /\ call.op = "list_jobs"
         /\ pc' = "wait"
         /\ reqs' = Append(reqs, reqs[1])
         /\ io' = Append(io, "requests.get")
         /\ UNCHANGED <<call, resp, result>>
    ELSE End("list_jobs", list_jobs_result(resp))

list_jobs_return == End("list_jobs", list_jobs_result(resp))

list_printers_call(kwargs) ==
    Begin([op |-> "list_printers"],
          list_printers_request(kwargs), <<"requests.get">>)

list_printers_return == End("list_printers", list_printers_result(resp))

submit_job_call(printer, content, title, ticket, tags, content_type, kwargs) ==
    Begin([op |-> "submit_job", printer |-> printer, content |-> content,
           title |-> title, ticket |-> ticket, tags |-> tags,
           content_type |-> content_type],
          submit_job_request(printer, content, title, ticket, tags,
                             content_type, kwargs),
          submit_job_io(content, content_type))

submit_job_return == End("submit_job", submit_job_result(resp))

Respond(r) ==
    /\ pc = "wait"
    /\ pc' = "resp"
    /\ resp' = r
    /\ UNCHANGED <<call, reqs, io, result>>

Finish ==
    /\ pc = "done"
    /\ pc' = "idle"
    /\ call' = NoCall
    /\ reqs' = <<>>
    /\ io' = <<>>
    /\ resp' = NoResponse
    /\ result' = NoResult

Next ==
    \/ \E id \in PrinterIds, kw \in Kwargs : get_printer_call(id, kw)
    \/ get_printer_return
    \/ \E id \in JobIds, p \in PrinterIds \cup {None}, kw \in Kwargs :
           get_job_call(id, p, kw)
    \/ get_job_return
    \/ \E id \in JobIds, kw \in Kwargs : delete_job_call(id, kw)
    \/ delete_job_return
    \/ \E p \in PrinterIds \cup {None}, kw \in Kwargs : list_jobs_call(p, kw)
    \/ list_jobs_return
    \/ \E kw \in Kwargs : list_printers_call(kw)
    \/ list_printers_return
    \/ \E p \in PrinterIds, c \in Contents, title \in TitleArgs,
          ticket \in TicketArgs, tags \in TagsArgs,
          ct \in ContentTypeArgs, kw \in Kwargs :
           submit_job_call(p, c, title, ticket, tags, ct, kw)
    \/ submit_job_return
    \/ \E r \in Responses : Respond(r)
    \/ Finish

Spec == Init /\ [][Next]_vars

----------------------------------------------------------------------------
(* Vocabulary of the properties *)

Issuing == {"get_printer", "list_jobs", "delete_job", "list_printers", "submit_job"}

Finished(ops) == pc = "done" /\ call.op \in ops

Submitted == pc # "idle" /\ call.op = "submit_job"

IsFormPost(q) == "content" \in DOMAIN q.data /\ "files" \notin DOMAIN q

IsMultipart(q) == "files" \in DOMAIN q /\ "content" \notin DOMAIN q.data

FileEvents == {"open", "read", "close"}

Touched(S) == \E i \in 1..Len(io) : io[i] \in S

NormalisedIsStr(c, ct) ==
    \/ c.kind = "pair" /\ c.stream.type = "str"
    \/ c.kind = "str" /\ ct = "url"

DerivedName(c, ct) ==
    IF c.kind = "pair" THEN c.name
    ELSE IF ct = "url" THEN Join(c.path)
    ELSE c.path[Len(c.path)]

Matches(jobs, id) == {i \in 1..Len(jobs) : jobs[i].id = id}

First(S) == CHOOSE i \in S : \A j \in S : i <= j

NumRequestEvents ==
    Cardinality({i \in 1..Len(io) : io[i] \in {"requests.get", "requests.post"}})

----------------------------------------------------------------------------
(* C1: for get_printer, list_jobs, delete_job, list_printers and submit_job,
   a response whose status is not the success status makes the call return
   that very response object, and r.json() is not called on it. *)
C1_RawOnFailure ==
    (Finished(Issuing) /\ resp.status_code # 200)
        => /\ result.kind = "return"
           /\ result.value = PyResponse(resp)
           /\ result.json_calls = 0

C1_Witness ==
    /\ Finished({"list_printers"})
    /\ resp.status_code = 404
    /\ resp.text.kind = "junk"
    /\ result.kind = "return"
    /\ result.value.t = "Response"

(* C2: a call answered with the success status and a decodable body returns
   the decoded body, list_jobs the value of its `jobs` member; whatever a
   successful call returns is never the response object. *)
C2_DecodedOnSuccess ==
    (Finished(Issuing) /\ resp.status_code = 200)
        => /\ result.json_calls = 1
           /\ result.kind = "return" => result.value.t # "Response"
           /\ (call.op # "list_jobs" /\ resp.text.kind = "json")
                  => result = Return(PyDict(resp.text.doc), 1)
           /\ (call.op = "list_jobs" /\ resp.text.kind = "json"
                   /\ resp.text.doc.has_jobs)
                  => result = Return(PyList(resp.text.doc.jobs), 1)

C2_Witness ==
    /\ Finished({"list_jobs"})
    /\ resp.status_code = 200
    /\ resp.text.kind = "json"
    /\ resp.text.doc.has_jobs
    /\ Len(resp.text.doc.jobs) = 2
    /\ result.value.t = "list"

(* C3: when the list-jobs request of get_job is answered with a non-success
   status, get_job returns the response object itself. *)
C3_GetJobRawOnFailure ==
    (Finished({"get_job"}) /\ resp.status_code # 200)
        => /\ result.kind = "return"
           /\ result.value = PyResponse(resp)

(* C4: when the list-jobs request succeeds, get_job returns the first listed
   job whose id equals the id asked for, and None exactly when no listed job
   has that id; the result is None or one of the listed jobs. *)
C4_GetJobFirstMatch ==
    (Finished({"get_job"}) /\ resp.status_code = 200 /\ resp.text.kind = "json"
         /\ resp.text.doc.has_jobs)
        => LET jobs == resp.text.doc.jobs
               m == Matches(jobs, call.id)
           IN  /\ result.kind = "return"
               /\ (m = {}) <=> (result.value = PyNone)
               /\ m # {} => result.value = PyDict(jobs[First(m)])
               /\ \/ result.value = PyNone
                  \/ \E i \in 1..Len(jobs) : result.value = PyDict(jobs[i])

C4_Witness ==
    /\ Finished({"get_job"})
    /\ resp.status_code = 200
    /\ resp.text.kind = "json"
    /\ resp.text.doc.has_jobs
    /\ Cardinality(Matches(resp.text.doc.jobs, call.id)) = 2
    /\ resp.text.doc.jobs[1] # resp.text.doc.jobs[2]
    /\ result.value = PyDict(resp.text.doc.jobs[1])

(* C5 as stated: the content goes as a plain form field, with no file opened
   or read, exactly when content_type is "url" and the normalised content is
   a string; a (name, stream) pair passed with content_type "url" is a
   multipart submission. *)
C5_PairWithUrlIsMultipart ==
    Submitted
        => /\ IsFormPost(reqs[1])
                  <=> (call.content_type = "url"
                          /\ NormalisedIsStr(call.content, call.content_type))
           /\ IsFormPost(reqs[1]) \/ IsMultipart(reqs[1])
           /\ (call.content.kind = "pair" /\ call.content_type = "url")
                  => IsMultipart(reqs[1])
           /\ IsFormPost(reqs[1]) => io = <<"requests.post">>

(* C5 amended: the content goes as a plain form field exactly when
   content_type is "url" and the normalised content is a string, which a
   (name, stream) pair is when its stream reads as text; no file is opened
   for a form post, and a bare URL string is sent without any read; every
   other request is multipart with the file part (derived name, content). *)
C5_FormFieldIffUrlAndStr ==
    Submitted
        => LET q == reqs[1]
               c == call.content
               ct == call.content_type
           IN  /\ IsFormPost(q) <=> (ct = "url" /\ NormalisedIsStr(c, ct))
               /\ IsFormPost(q) \/ IsMultipart(q)
               /\ IsFormPost(q) => ~Touched(FileEvents)
               /\ (IsFormPost(q) /\ c.kind = "str")
                      => (io = <<"requests.post">> /\ q.data.content = Join(c.path))
               /\ (IsFormPost(q) /\ c.kind = "pair")
                      => q.data.content = c.stream.data
               /\ (c.kind = "pair" /\ ct = "url" /\ c.stream.type = "bytes")
                      => IsMultipart(q)
               /\ IsMultipart(q) => q.files.content[1] = DerivedName(c, ct)

C5_Witness ==
    /\ Submitted
    /\ call.content.kind = "pair"
    /\ call.content.stream.type = "str"
    /\ call.content_type = "url"
    /\ IsFormPost(reqs[1])

(* C6: with no ticket supplied the ticket field is the JSON text `[{}]`; a
   supplied ticket, an empty list included, is sent as its own JSON text. *)
C6_TicketDefault ==
    Submitted
        => LET sent == reqs[1].data.ticket
           IN  /\ call.ticket = PyNone => sent = "[{}]"
               /\ call.ticket = PyList(<<>>) => sent = "[]"
               /\ call.ticket = PyList(<<PyDict(<<<<"copies", PyStr("2")>>>>)>>)
                      => sent = "[{\"copies\": \"2\"}]"
               /\ call.ticket # PyNone => sent = json_dumps(call.ticket)

C6_Witness ==
    /\ Submitted
    /\ call.ticket = PyNone
    /\ call.tags # PyNone
    /\ call.content_type = "url"
    /\ reqs[1].data.ticket = "[{}]"

(* C7: a path input is opened, read to its end and closed before the request
   is sent; the file part is (final path component, all bytes of the file),
   and the title is that component when no title is supplied. *)
C7_PathReadFully ==
    (Submitted /\ call.content.kind = "str" /\ call.content_type # "url")
        => LET q == reqs[1]
               path == call.content.path
               last == path[Len(path)]
           IN  /\ io = <<"open", "read", "close", "requests.post">>
               /\ IsMultipart(q)
               /\ q.files.content = <<last, Disk(path)>>
               /\ call.title = None => q.data.title = last
               /\ call.title # None => q.data.title = call.title

C7_Witness ==
    /\ Submitted
    /\ call.content.kind = "str"
    /\ Len(call.content.path) = 2
    /\ call.content.path[1] # call.content.path[2]
    /\ call.content_type = None
    /\ call.title = None
    /\ reqs[1].data.title = call.content.path[2]
    /\ Len(reqs[1].files.content[2]) = 2

(* C8 as stated: the MIME type field is the content_type argument whenever
   one is supplied, and the type guessed from the derived name otherwise. *)
C8_SuppliedContentTypeSent ==
    Submitted
        => LET sent == reqs[1].data.contentType
               name == DerivedName(call.content, call.content_type)
           IN  /\ call.content_type # None => sent = call.content_type
               /\ call.content_type = None
                      => sent = (IF name = "a.pdf" THEN "application/pdf" ELSE None)

(* C8 amended: the MIME type field is the content_type argument when that is
   a non-empty string; when it is None or the empty string, the field is the
   type guessed from the derived name, and None, which the request leaves
   out, when the guess is unresolved. *)
C8_MimeTypeField ==
    Submitted
        => LET sent == reqs[1].data.contentType
               name == DerivedName(call.content, call.content_type)
           IN  /\ call.content_type \notin {None, ""} => sent = call.content_type
               /\ call.content_type \in {None, ""}
                      => sent = (IF name = "a.pdf" THEN "application/pdf" ELSE None)

C8_Witness ==
    /\ Submitted
    /\ call.content_type = ""
    /\ call.content.kind = "str"
    /\ Len(call.content.path) = 2
    /\ reqs[1].data.contentType = "application/pdf"

(* C9: a call in progress or finished has issued exactly one request, the
   GET to /jobs for get_job; none is sent again whatever the status; between
   calls nothing of the previous call is left. *)
C9_SingleRoundTrip ==
    /\ pc = "idle"
           => (call = NoCall /\ reqs = <<>> /\ io = <<>> /\ resp = NoResponse
                   /\ result = NoResult)
    /\ pc # "idle" => (Len(reqs) = 1 /\ NumRequestEvents = 1)
    /\ (pc # "idle" /\ call.op = "get_job")
           => (reqs[1].method = "GET"
                   /\ reqs[1].url = "https://www.google.com/cloudprint/jobs")

C9_Witness ==
    /\ Finished({"get_job"})
    /\ resp.status_code = 404
    /\ Len(reqs) = 1
    /\ reqs[1].method = "GET"

(* C10: in the five request-issuing functions the response is decoded
   exactly when its status is 200; 201 and 204 give the response object. *)
C10_SplitAtExactly200 ==
    Finished(Issuing)
        => /\ (result.json_calls = 1) <=> (resp.status_code = 200)
           /\ (result.json_calls = 0) <=> (result = Return(PyResponse(resp), 0))
           /\ resp.status_code \in {201, 204} => result.value.t = "Response"

C10_Witness ==
    /\ Finished({"delete_job"})
    /\ resp.status_code = 201
    /\ resp.text.kind = "json"
    /\ result = Return(PyResponse(resp), 0)

====
